---- MODULE Spec2Model ----
(***************************************************************************)
(* Model of the Mandelbrot plotter in src/src/main.rs: pixel_to_point,     *)
(* escape_time, render, flatten, write_image and the parallel dispatch of  *)
(* one render call per row band in main.                                   *)
(*                                                                         *)
(* Numbers.  An f64 is a binary floating point number: every operation     *)
(* returns the exact result rounded to the nearest representable value,    *)
(* ties to even.  The model keeps that rule with a shorter significand: a  *)
(* value is an integer counting multiples of 1/Unit = 2^-FracBits (the     *)
(* smallest subnormal step) that has at most Precision significant bits.   *)
(* A u8 is an integer 0..255; arithmetic on it panics on overflow when the *)
(* build has overflow checks (cargo's dev profile) and wraps otherwise     *)
(* (release profile).                                                      *)
(***************************************************************************)
EXTENDS Integers, Sequences, FiniteSets, TLC

VARIABLES
    overflow_checks, \* build profile: TRUE = overflow checks (dev), FALSE = wrapping (release)
    bounds,          \* main: bounds, <<width, height>>
    upper_left,      \* main: upper_left
    lower_right,     \* main: lower_right
    pixels,          \* main: pixels, function 0..len-1 -> <<r, g, b>>
    bands,           \* main: bands, function i -> [start, len] (slice of pixels)
    task,            \* per band closure: "pending", "running", "done", "panicked"
    row,             \* render: loop variable row of each band task
    column,          \* render: loop variable column of each band task
    written,         \* history: for each buffer index, the band tasks that wrote it
    escaped,         \* history: for each buffer index, what escape_time returned for it
    pc,              \* main's position
    panic,           \* reason of the first panic, "none" if none
    image,           \* what write_image handed to the encoder
    call,            \* direct call of one function (as the unit tests do)
    ret              \* its result

vars == <<overflow_checks, bounds, upper_left, lower_right, pixels, bands, task,
          row, column, written, escaped, pc, panic, image, call, ret>>

mainVars == <<overflow_checks, bounds, upper_left, lower_right, pixels, bands, task,
              row, column, written, escaped, pc, panic, image>>

(***************************************************************************)
(* Bounds of the model                                                     *)
(***************************************************************************)
MaxWidth == 3
MaxHeight == 2
MaxCoord == 2
MaxLimit == 4
MaxPixels == 6
Precision == 8
FracBits == 10
Grid == 32

(***************************************************************************)
(* f64 and Complex<f64>                                                    *)
(***************************************************************************)
RECURSIVE Pow2(_)
Pow2(n) == IF n <= 0 THEN 1 ELSE 2 * Pow2(n - 1)

Unit == Pow2(FracBits)

Full == Pow2(Precision)

Abs(x) == IF x < 0 THEN -x ELSE x

\* the spacing of the representable values around a magnitude of q units
RECURSIVE Ulp(_, _)
Ulp(q, s) == IF q < Full * s THEN s ELSE Ulp(q, 2 * s)

\* num / den units, den > 0, rounded to the nearest representable value,
\* ties to the even significand
Round(num, den) ==
    LET a == Abs(num)
        s == Ulp(a \div den, 1)
        d == den * s
        t == a \div d
        rem == a - t * d
        up == 2 * rem > d \/ (2 * rem = d /\ t % 2 = 1)
        m == (IF up THEN t + 1 ELSE t) * s
    IN  IF num < 0 THEN -m ELSE m

F(n) == Round(n * Unit, 1)

FAdd(x, y) == Round(x + y, 1)

FSub(x, y) == Round(x - y, 1)

FMul(x, y) == Round(x * y, Unit)

FDiv(x, y) == IF y < 0 THEN Round(-(x * Unit), -y) ELSE Round(x * Unit, y)

Complex(re, im) == [re |-> re, im |-> im]

CAdd(a, b) == Complex(FAdd(a.re, b.re), FAdd(a.im, b.im))

CMul(a, b) == Complex(FSub(FMul(a.re, b.re), FMul(a.im, b.im)),
                      FAdd(FMul(a.re, b.im), FMul(a.im, b.re)))

norm_sqr(z) == FAdd(FMul(z.re, z.re), FMul(z.im, z.im))

(***************************************************************************)
(* Option<usize>                                                           *)
(***************************************************************************)
None == <<>>

Some(k) == <<k>>

(***************************************************************************)
(* pixel_to_point                                                          *)
(***************************************************************************)
\* pixel_to_point without the axis flip: the imaginary part grows with the row
pixel_to_point_no_flip(bnds, pixel, ul, lr) ==
    LET width == FSub(lr.re, ul.re)
        height == FSub(ul.im, lr.im)
    IN  Complex(FAdd(ul.re, FDiv(FMul(F(pixel[1]), width), F(bnds[1]))),
                FAdd(ul.im, FDiv(FMul(F(pixel[2]), height), F(bnds[2]))))

pixel_to_point(bnds, pixel, ul, lr) ==
    LET width == FSub(lr.re, ul.re)
        height == FSub(ul.im, lr.im)
    IN  Complex(FAdd(ul.re, FDiv(FMul(F(pixel[1]), width), F(bnds[1]))),
                FSub(ul.im, FDiv(FMul(F(pixel[2]), height), F(bnds[2]))))

(***************************************************************************)
(* escape_time                                                             *)
(***************************************************************************)
\* escape_iter with the test z.norm_sqr() >= radius
escape_iter_ge(s, c, radius) ==
    IF s.returned THEN s
    ELSE IF norm_sqr(s.z) >= radius
         THEN [s EXCEPT !.returned = TRUE, !.value = Some(s.i)]
         ELSE [s EXCEPT !.z = CAdd(CMul(s.z, s.z), c), !.i = s.i + 1]

\* escape_iter with the update applied before the test
escape_iter_update_first(s, c, radius) ==
    IF s.returned THEN s
    ELSE LET z == CAdd(CMul(s.z, s.z), c)
         IN  IF norm_sqr(z) > radius
             THEN [s EXCEPT !.returned = TRUE, !.value = Some(s.i)]
             ELSE [s EXCEPT !.z = z, !.i = s.i + 1]

\* One iteration of the for loop (lines 69-72) on the loop state s: the
\* current z, the loop index i, and the value returned, if the loop has
\* returned.
escape_iter(s, c, radius) ==
    IF s.returned THEN s
    ELSE IF norm_sqr(s.z) > radius
         THEN [s EXCEPT !.returned = TRUE, !.value = Some(s.i)]
         ELSE [s EXCEPT !.z = CAdd(CMul(s.z, s.z), c), !.i = s.i + 1]

\* n iterations of the loop, evaluated by halving so that the evaluation
\* depth is logarithmic in n.
RECURSIVE escape_iters(_, _, _, _)
escape_iters(s, n, c, radius) ==
    IF n <= 0 THEN s
    ELSE IF n = 1 THEN escape_iter(s, c, radius)
    ELSE LET half == escape_iters(s, n \div 2, c, radius)
         IN  IF half.returned THEN half
             ELSE escape_iters(half, n - (n \div 2), c, radius)

escape_time(c, limit, radius) ==
    escape_iters([z |-> Complex(0, 0), i |-> 0, returned |-> FALSE, value |-> None],
                 limit, c, radius).value

(***************************************************************************)
(* render: the colour of one pixel (lines 85-89) and the whole function    *)
(***************************************************************************)
Limit == 255

NoPanic == "none"

energy(esc) == IF esc = None THEN 0 ELSE 255 - (esc[1] % 256)

pixel_value(esc, checks) ==
    LET e == energy(esc)
        product == e * (255 - e)
    IN  IF product > 255 /\ checks THEN [panic |-> "overflow"]
        ELSE IF 255 - e = 0 THEN [panic |-> "divzero"]
        ELSE [panic |-> NoPanic, rgb |-> <<e, product % 256, e \div (255 - e)>>]

Len0(buf) == Cardinality(DOMAIN buf)

Black == <<0, 0, 0>>

ZeroBuffer(len) == [j \in 0 .. len - 1 |-> Black]

\* pixels[row * bounds.0 + column], line 89
offset(bnds, r, c) == r * bnds[1] + c

RECURSIVE render_loop(_, _, _, _, _, _, _)
render_loop(buf, k, bnds, ul, lr, radius, checks) ==
    IF k >= bnds[1] * bnds[2] THEN [panic |-> NoPanic, pixels |-> buf]
    ELSE LET r == k \div bnds[1]
             c == k % bnds[1]
             point == pixel_to_point(bnds, <<c, r>>, ul, lr)
             v == pixel_value(escape_time(point, Limit, radius), checks)
         IN  IF v.panic # NoPanic THEN [panic |-> v.panic, pixels |-> buf]
             ELSE render_loop([buf EXCEPT ![offset(bnds, r, c)] = v.rgb],
                              k + 1, bnds, ul, lr, radius, checks)

render(buf, bnds, ul, lr, radius, checks) ==
    IF Len0(buf) # bnds[1] * bnds[2] THEN [panic |-> "assert", pixels |-> buf]
    ELSE render_loop(buf, 0, bnds, ul, lr, radius, checks)

(***************************************************************************)
(* flatten and the slicing of main                                         *)
(***************************************************************************)
flatten(data) == [j \in 0 .. 3 * Len0(data) - 1 |-> data[j \div 3][(j % 3) + 1]]

\* a buffer one element too long
PixelsLen_plus_one(bnds) == bnds[1] * bnds[2] + 1

PixelsLen(bnds) == bnds[1] * bnds[2]

NumChunks(len, size) == (len + size - 1) \div size

Min(a, b) == IF a < b THEN a ELSE b

\* chunks that all start at the head of the buffer
chunks_mut_aliased(len, size) ==
    [i \in 0 .. NumChunks(len, size) - 1 |->
        [start |-> 0, len |-> Min(size, len - i * size)]]

chunks_mut(len, size) ==
    [i \in 0 .. NumChunks(len, size) - 1 |->
        [start |-> i * size, len |-> Min(size, len - i * size)]]

\* every band indexing the buffer from its head
slot_shared(band, local) == local

\* the place of a band's element in the buffer the band is a slice of
slot(band, local) == band.start + local

band_bounds(bnds) == <<bnds[1], 1>>

band_upper_left(bnds, top, ul, lr) == pixel_to_point(bnds, <<0, top>>, ul, lr)

band_lower_right(bnds, top, ul, lr) == pixel_to_point(bnds, <<bnds[1], top + 1>>, ul, lr)

Radius == F(4)

(***************************************************************************)
(* Inputs: the command line of main.  The corners have whole coordinates,  *)
(* the upper left one on the imaginary axis above the origin, the lower    *)
(* right one right of the origin, on the real axis or as far below it as   *)
(* the upper left one is above; the image has at most MaxPixels pixels.    *)
(* The points of the pixels are what pixel_to_point makes of the corners,  *)
(* rounding included.                                                      *)
(***************************************************************************)
Coords == {F(k) : k \in -MaxCoord .. MaxCoord}

Points == {Complex(re, im) : re \in Coords, im \in Coords}

MainInputs ==
    {in \in [bounds : (0 .. MaxWidth) \X (0 .. MaxHeight),
             upper_left : {p \in Points : p.re = 0 /\ p.im > 0},
             lower_right : {p \in Points : p.re > 0 /\ p.im <= 0}] :
        /\ in.bounds[1] * in.bounds[2] <= MaxPixels
        /\ in.lower_right.im \in {0, -in.upper_left.im}}

NoCall == [fn |-> "main"]

NoRet == [st |-> "none"]

Init ==
    /\ overflow_checks \in BOOLEAN
    /\ \E in \in MainInputs :
        /\ bounds = in.bounds
        /\ upper_left = in.upper_left
        /\ lower_right = in.lower_right
    /\ pixels = <<>>
    /\ bands = <<>>
    /\ task = <<>>
    /\ row = <<>>
    /\ column = <<>>
    /\ written = <<>>
    /\ escaped = <<>>
    /\ pc = "start"
    /\ panic = NoPanic
    /\ image = <<>>
    /\ call = NoCall
    /\ ret = NoRet

(***************************************************************************)
(* main, lines 123-129: allocate the buffer and slice it into bands        *)
(***************************************************************************)
Dispatch ==
    /\ pc = "start"
    /\ IF bounds[1] = 0
       THEN /\ pc' = "panicked"
            /\ panic' = "chunk_size"
            /\ UNCHANGED <<pixels, bands, task, row, column, written, escaped>>
       ELSE /\ pixels' = ZeroBuffer(PixelsLen(bounds))
            /\ bands' = chunks_mut(PixelsLen(bounds), bounds[1])
            /\ task' = [i \in DOMAIN bands' |-> "pending"]
            /\ row' = [i \in DOMAIN bands' |-> 0]
            /\ column' = [i \in DOMAIN bands' |-> 0]
            /\ written' = [j \in 0 .. PixelsLen(bounds) - 1 |-> <<>>]
            /\ escaped' = [j \in 0 .. PixelsLen(bounds) - 1 |-> <<>>]
            /\ pc' = "par"
            /\ UNCHANGED panic
    /\ UNCHANGED <<overflow_checks, bounds, upper_left, lower_right, image, call, ret>>

(***************************************************************************)
(* The closure of for_each, lines 132-140, up to render's assertion and    *)
(* the entry of its loops (lines 81-83)                                    *)
(***************************************************************************)
Fail(i, why) ==
    /\ task' = [task EXCEPT ![i] = "panicked"]
    /\ panic' = IF panic = NoPanic THEN why ELSE panic

StartBand(i) ==
    /\ pc = "par"
    /\ task[i] = "pending"
    /\ LET bb == band_bounds(bounds)
       IN  IF bands[i].len # bb[1] * bb[2]
           THEN Fail(i, "assert")
           ELSE /\ task' = [task EXCEPT ![i] = IF bb[1] * bb[2] = 0 THEN "done" ELSE "running"]
                /\ UNCHANGED panic
    /\ UNCHANGED <<overflow_checks, bounds, upper_left, lower_right, pixels, bands,
                   row, column, written, escaped, pc, image, call, ret>>

(***************************************************************************)
(* One iteration of render's inner loop in band task i, lines 84-89        *)
(***************************************************************************)
RenderPixel(i) ==
    /\ pc = "par"
    /\ task[i] = "running"
    /\ LET bb == band_bounds(bounds)
           bul == band_upper_left(bounds, i, upper_left, lower_right)
           blr == band_lower_right(bounds, i, upper_left, lower_right)
           point == pixel_to_point(bb, <<column[i], row[i]>>, bul, blr)
           local == offset(bb, row[i], column[i])
           lastColumn == column[i] + 1 = bb[1]
           lastRow == row[i] + 1 = bb[2]
       IN  \E esc \in {escape_time(point, Limit, Radius)} :
           \E v \in {pixel_value(esc, overflow_checks)} :
               /\ escaped' = IF local < bands[i].len
                             THEN [escaped EXCEPT ![slot(bands[i], local)] = <<esc>>]
                             ELSE escaped
               /\ IF v.panic # NoPanic
                  THEN /\ Fail(i, v.panic)
                       /\ UNCHANGED <<pixels, written, row, column>>
                  ELSE IF local >= bands[i].len
                  THEN /\ Fail(i, "index")
                       /\ UNCHANGED <<pixels, written, row, column>>
                  ELSE /\ pixels' = [pixels EXCEPT ![slot(bands[i], local)] = v.rgb]
                       /\ written' = [written EXCEPT ![slot(bands[i], local)] = Append(@, i)]
                       /\ column' = [column EXCEPT ![i] = IF lastColumn THEN 0 ELSE @ + 1]
                       /\ row' = [row EXCEPT ![i] = IF lastColumn THEN @ + 1 ELSE @]
                       /\ task' = [task EXCEPT ![i] =
                                      IF lastColumn /\ lastRow THEN "done" ELSE @]
                       /\ UNCHANGED panic
    /\ UNCHANGED <<overflow_checks, bounds, upper_left, lower_right, bands, pc,
                   image, call, ret>>

(***************************************************************************)
(* for_each returns, line 140: only when every band task has completed;    *)
(* a panic of a band task is resumed in main once no task is running       *)
(***************************************************************************)
\* fire-and-forget: every band task has been started
AllBandsStarted == \A i \in DOMAIN task : task[i] # "pending"

AllBandsComplete == \A i \in DOMAIN task : task[i] = "done"

Join ==
    /\ pc = "par"
    /\ AllBandsComplete
    /\ pc' = "encode"
    /\ UNCHANGED <<overflow_checks, bounds, upper_left, lower_right, pixels, bands, task,
                   row, column, written, escaped, panic, image, call, ret>>

JoinPanic ==
    /\ pc = "par"
    /\ \E i \in DOMAIN task : task[i] = "panicked"
    /\ \A i \in DOMAIN task : task[i] # "running"
    /\ pc' = "panicked"
    /\ UNCHANGED <<overflow_checks, bounds, upper_left, lower_right, pixels, bands, task,
                   row, column, written, escaped, panic, image, call, ret>>

(***************************************************************************)
(* write_image, lines 103-108 and 144                                      *)
(***************************************************************************)
write_image ==
    /\ pc = "encode"
    /\ \E ok \in BOOLEAN :
        IF ok
        THEN /\ image' = [data |-> flatten(pixels), width |-> bounds[1], height |-> bounds[2]]
             /\ pc' = "done"
             /\ UNCHANGED panic
        ELSE /\ pc' = "panicked"
             /\ panic' = "io"
             /\ UNCHANGED image
    /\ UNCHANGED <<overflow_checks, bounds, upper_left, lower_right, pixels, bands, task,
                   row, column, written, escaped, call, ret>>

Next ==
    \/ Dispatch
    \/ \E i \in DOMAIN task : StartBand(i)
    \/ \E i \in DOMAIN task : RenderPixel(i)
    \/ Join
    \/ JoinPanic
    \/ write_image

Spec == Init /\ [][Next]_vars

(***************************************************************************)
(* Direct calls of the functions, one call per behaviour, with the inputs  *)
(* drawn from bounded sets (the unit tests call the functions this way).   *)
(***************************************************************************)
Radii == {F(-1), F(0), F(1), Radius}

Limits == (0 .. MaxLimit) \cup {Limit}

EscapeTimeCalls ==
    [fn : {"escape_time"}, c : Points, limit : Limits, radius : Radii]

\* test_pixel_to_point, lines 58-64
TestPixelToPoint ==
    [fn |-> "pixel_to_point", bounds |-> <<100, 200>>, pixel |-> <<25, 175>>,
     upper_left |-> Complex(F(-1), F(1)), lower_right |-> Complex(F(1), F(-1))]

PixelToPointCalls ==
    {cl \in [fn : {"pixel_to_point"}, bounds : (1 .. MaxWidth) \X (1 .. MaxHeight),
             pixel : (0 .. MaxWidth) \X (0 .. MaxHeight),
             upper_left : Points, lower_right : Points] :
        /\ cl.pixel[1] <= cl.bounds[1]
        /\ cl.pixel[2] <= cl.bounds[2]
        /\ cl.upper_left.re <= cl.lower_right.re
        /\ cl.upper_left.im >= cl.lower_right.im}
    \cup {TestPixelToPoint}

EscapeResults == {None} \cup {Some(k) : k \in 0 .. Limit - 1}

PixelValueCalls == [fn : {"pixel_value"}, esc : EscapeResults, checks : BOOLEAN]

\* render called on any buffer and with any radius, on viewports between
\* corners at distance MaxCoord from the origin
Corners == {Complex(re, im) : re \in {F(-MaxCoord), F(MaxCoord)},
                              im \in {F(-MaxCoord), F(MaxCoord)}}

CornerRenderCalls ==
    {cl \in [fn : {"render"}, len : 0 .. MaxWidth * MaxHeight + 1,
             bounds : (0 .. MaxWidth) \X (0 .. MaxHeight),
             upper_left : Corners, lower_right : Corners,
             radius : {F(-1), Radius}, checks : BOOLEAN] :
        /\ cl.len \in {PixelsLen(cl.bounds), PixelsLen(cl.bounds) + 1}
        /\ cl.upper_left.re <= cl.lower_right.re
        /\ cl.upper_left.im >= cl.lower_right.im}

\* render called as main would call it for the whole image (line 143), on
\* viewports whose right edge is k/Grid for the k between Grid and
\* MaxCoord * Grid; the decimal k/Grid is parsed to the nearest value
FineCoords == {Round(k * Unit, Grid) : k \in Grid .. MaxCoord * Grid}

FineRenderCalls ==
    {cl \in [fn : {"render"}, len : 1 .. MaxWidth * MaxHeight,
             bounds : (1 .. MaxWidth) \X (1 .. MaxHeight),
             upper_left : {Complex(F(-MaxCoord), F(1))},
             lower_right : {Complex(re, 0) : re \in FineCoords},
             radius : {Radius}, checks : BOOLEAN] :
        cl.len = PixelsLen(cl.bounds)}

RenderCalls == CornerRenderCalls \cup FineRenderCalls

Calls == EscapeTimeCalls \cup PixelToPointCalls \cup PixelValueCalls \cup RenderCalls

Returned(v) == [st |-> "returned", val |-> v]

InitFn ==
    /\ call \in Calls
    /\ ret = NoRet
    /\ overflow_checks = FALSE
    /\ bounds = <<0, 0>>
    /\ upper_left = Complex(0, 0)
    /\ lower_right = Complex(0, 0)
    /\ pixels = <<>>
    /\ bands = <<>>
    /\ task = <<>>
    /\ row = <<>>
    /\ column = <<>>
    /\ written = <<>>
    /\ escaped = <<>>
    /\ pc = "call"
    /\ panic = NoPanic
    /\ image = <<>>

CallEscapeTime ==
    /\ call.fn = "escape_time"
    /\ ret = NoRet
    /\ ret' = Returned(escape_time(call.c, call.limit, call.radius))
    /\ UNCHANGED <<mainVars, call>>

CallPixelToPoint ==
    /\ call.fn = "pixel_to_point"
    /\ ret = NoRet
    /\ ret' = Returned(pixel_to_point(call.bounds, call.pixel, call.upper_left,
                                      call.lower_right))
    /\ UNCHANGED <<mainVars, call>>

CallPixelValue ==
    /\ call.fn = "pixel_value"
    /\ ret = NoRet
    /\ ret' = Returned(pixel_value(call.esc, call.checks))
    /\ UNCHANGED <<mainVars, call>>

CallRender ==
    /\ call.fn = "render"
    /\ ret = NoRet
    /\ ret' = Returned(render(ZeroBuffer(call.len), call.bounds, call.upper_left,
                              call.lower_right, call.radius, call.checks))
    /\ UNCHANGED <<mainVars, call>>

NextFn ==
    \/ CallEscapeTime
    \/ CallPixelToPoint
    \/ CallPixelValue
    \/ CallRender

SpecFn == InitFn /\ [][NextFn]_vars

(***************************************************************************)
(* Reference computations the properties compare the run against           *)
(***************************************************************************)
\* The band closures of lines 132-140 run one after another, band 0 first.
RECURSIVE bands_in_order(_, _, _, _, _, _, _)
bands_in_order(buf, i, bs, bnds, ul, lr, checks) ==
    IF i \notin DOMAIN bs THEN [panic |-> NoPanic, pixels |-> buf]
    ELSE LET band == bs[i]
             slice == [j \in 0 .. band.len - 1 |-> buf[slot(band, j)]]
             r == render(slice, band_bounds(bnds), band_upper_left(bnds, i, ul, lr),
                         band_lower_right(bnds, i, ul, lr), Radius, checks)
             after == [j \in DOMAIN buf |->
                          IF j - band.start \in 0 .. band.len - 1
                          THEN r.pixels[j - band.start] ELSE buf[j]]
         IN  IF r.panic # NoPanic THEN [panic |-> r.panic, pixels |-> after]
             ELSE bands_in_order(after, i + 1, bs, bnds, ul, lr, checks)

Sequential ==
    bands_in_order(ZeroBuffer(PixelsLen(bounds)), 0, bands, bounds, upper_left,
                   lower_right, overflow_checks)

\* The band by band rendering of main applied to the arguments of a direct
\* render call.
Banded(cl) ==
    bands_in_order(ZeroBuffer(cl.len), 0, chunks_mut(cl.len, cl.bounds[1]), cl.bounds,
                   cl.upper_left, cl.lower_right, cl.checks)

\* <<z_1, ..., z_n>> of the sequence z_0 = z, z_{k+1} = z_k^2 + c
RECURSIVE Orbit(_, _, _)
Orbit(z, n, c) ==
    IF n <= 0 THEN <<>>
    ELSE IF n = 1 THEN <<CAdd(CMul(z, z), c)>>
    ELSE LET head == Orbit(z, n \div 2, c)
         IN  IF Len(head) = n \div 2
             THEN head \o Orbit(head[Len(head)], n - (n \div 2), c)
             ELSE head

\* rounding tolerance of pixel_to_point, scaled by Full * n: four rounded
\* operations on magnitudes up to a, each off by at most half a unit in the
\* last place or half a unit
Tolerance(a, n) == 4 * a + 2 * Full * n

Close(p, exactTimesN, n, a) == Full * Abs(p * n - exactTimesN) <= Tolerance(a, n)

Dispatched == pc \in {"par", "encode", "done"} \/ (pc = "panicked" /\ panic # "chunk_size")

Joined == pc \in {"encode", "done"}

Indices == DOMAIN written

(***************************************************************************)
(* C1.  The buffer is split into exactly `height` bands, band i covering   *)
(* exactly the indices [i*width, (i+1)*width); in every interleaving each  *)
(* index is written only by the task of its own band, at most once while   *)
(* the tasks run and exactly once when they have all completed.            *)
(***************************************************************************)
C1_BandsExclusive ==
    Dispatched =>
        /\ DOMAIN bands = 0 .. bounds[2] - 1
        /\ Indices = 0 .. bounds[1] * bounds[2] - 1
        /\ \A i \in DOMAIN bands :
               bands[i].start = i * bounds[1] /\ bands[i].len = bounds[1]
        /\ \A j \in Indices :
               /\ Len(written[j]) <= 1
               /\ \A n \in 1 .. Len(written[j]) : written[j][n] = j \div bounds[1]
               /\ Joined => Len(written[j]) = 1

C1_Witness ==
    /\ pc = "done"
    /\ bounds = <<2, 2>>
    /\ \A j \in 0 .. 3 : written[j] = <<j \div 2>>

(***************************************************************************)
(* C2.  Fork-join barrier: when control is at write_image or past it,      *)
(* every band task has run to completion (none pending, running or         *)
(* panicked) and every pixel of the buffer has been written.               *)
(***************************************************************************)
C2_EncodeAfterJoin ==
    Joined =>
        /\ DOMAIN task = 0 .. bounds[2] - 1
        /\ \A i \in DOMAIN task : task[i] = "done"
        /\ \A j \in Indices : written[j] # <<>>
        /\ panic = NoPanic

C2_Witness ==
    /\ pc = "encode"
    /\ bounds[1] >= 2
    /\ bounds[2] >= 2
    /\ \A i \in DOMAIN task : task[i] = "done"

(***************************************************************************)
(* C3.  Whatever the interleaving of the band tasks, the buffer at the     *)
(* join is the one obtained by running the bands one after another: it is  *)
(* a function of bounds, viewport, limit and radius only.                  *)
(***************************************************************************)
C3_ScheduleIndependent ==
    Joined => Sequential.panic = NoPanic /\ pixels = Sequential.pixels

C3_Witness ==
    /\ pc = "encode"
    /\ bounds[2] >= 2
    /\ pixels[0] # pixels[bounds[1]]
    /\ pixels = Sequential.pixels

(***************************************************************************)
(* C4.  Rendering each row as its own band with bounds (width, 1) and the  *)
(* band corners of lines 135-138 gives, pixel for pixel, the buffer of one *)
(* render call over the whole image.                                       *)
(***************************************************************************)
C4_PartitionedEqualsMonolithic ==
    (call.fn = "render" /\ call.radius = Radius /\ call.bounds[1] >= 1
     /\ call.len = PixelsLen(call.bounds) /\ ret.st = "returned") =>
        Banded(call) = ret.val

(***************************************************************************)
(* C9.  Every band handed to render has length exactly width =             *)
(* band_bounds.0 * band_bounds.1, render's assertion never fails in a band *)
(* task, and every write stays inside the band.                            *)
(***************************************************************************)
C9_BandLength ==
    Dispatched =>
        /\ \A i \in DOMAIN bands :
               /\ bands[i].len = bounds[1]
               /\ bands[i].len = band_bounds(bounds)[1] * band_bounds(bounds)[2]
        /\ panic \notin {"assert", "index"}
        /\ \A j \in Indices : \A n \in 1 .. Len(written[j]) :
               j - bands[written[j][n]].start \in 0 .. bands[written[j][n]].len - 1

C9_Witness ==
    /\ pc = "par"
    /\ bounds[1] = 2
    /\ bounds[2] = 2
    /\ \A i \in DOMAIN task : task[i] = "running" /\ column[i] = 1

(***************************************************************************)
(* C10.  In the pipeline (limit 255, radius 4.0) escape_time never returns *)
(* Some(0): every escaped pixel has 1 <= count <= 254 and energy in        *)
(* 1..254, the divisor 255 - energy is never zero, and a written pixel is  *)
(* black if and only if its point did not escape.                          *)
(***************************************************************************)
C10_NeverEscapesAtZero ==
    Dispatched =>
        /\ panic # "divzero"
        /\ \A j \in DOMAIN escaped : escaped[j] # <<>> =>
               LET esc == escaped[j][1]
               IN  /\ esc # Some(0)
                   /\ esc # None => esc[1] \in 1 .. 254 /\ energy(esc) \in 1 .. 254
                   /\ written[j] # <<>> => (pixels[j] = Black <=> esc = None)

C10_Witness ==
    /\ pc = "done"
    /\ \E j \in Indices : escaped[j] = <<None>> /\ pixels[j] = Black
    /\ \E j \in Indices : escaped[j] = <<Some(1)>> /\ pixels[j] # Black
    /\ \E j \in Indices : escaped[j] = <<Some(3)>> /\ pixels[j] # Black

(***************************************************************************)
(* C5.  For the escape result Some(0) (energy = 255; every pixel of a      *)
(* render call with a negative radius) the colour computation of render    *)
(* yields blue = 0 and does not divide by zero.                            *)
(***************************************************************************)
C5_EnergyFullHandled ==
    (call.fn = "render" /\ call.len = PixelsLen(call.bounds) /\ call.len > 0
     /\ call.radius < 0 /\ ret.st = "returned") =>
        /\ ret.val.panic = NoPanic
        /\ \A j \in 0 .. call.len - 1 : ret.val.pixels[j][3] = 0

(***************************************************************************)
(* C6.  For every escape result Some(count), 0 <= count < 255: energy =    *)
(* 255 - count, red = energy, green = energy * (255 - energy) truncated to *)
(* 8 bits, and computing green never aborts the render.                    *)
(***************************************************************************)
C6_GreenTruncates ==
    (call.fn = "pixel_value" /\ call.esc # None /\ ret.st = "returned") =>
        LET count == call.esc[1]
        IN  /\ ret.val.panic # "overflow"
            /\ ret.val.panic = NoPanic =>
                   /\ ret.val.rgb[1] = 255 - count
                   /\ ret.val.rgb[2] = ((255 - count) * (255 - (255 - count))) % 256

(***************************************************************************)
(* C7.  escape_time returns Some(i) for the least i in [0, limit) with     *)
(* |z_i|^2 > radius, and None when there is none; a returned count is in   *)
(* [0, limit).  As claimed: c = 0 returns None for every positive limit.   *)
(***************************************************************************)
EscapeTimeContract ==
    LET r == ret.val
        last == IF r = None THEN call.limit - 1 ELSE r[1]
        z == <<Complex(0, 0)>> \o Orbit(Complex(0, 0), last, call.c)
        EscapedAt(j) == norm_sqr(z[j + 1]) > call.radius
    IN  /\ r = None => \A j \in 0 .. call.limit - 1 : ~EscapedAt(j)
        /\ r # None =>
               /\ r[1] \in 0 .. call.limit - 1
               /\ EscapedAt(r[1])
               /\ \A j \in 0 .. r[1] - 1 : ~EscapedAt(j)

C7_Original ==
    (call.fn = "escape_time" /\ ret.st = "returned") =>
        /\ EscapeTimeContract
        /\ (call.c = Complex(0, 0) /\ call.limit > 0) => ret.val = None

\* C7 as amended: c = 0 returns None for every positive limit and every
\* radius that is not negative.
C7_EscapeTime ==
    (call.fn = "escape_time" /\ ret.st = "returned") =>
        /\ EscapeTimeContract
        /\ (call.c = Complex(0, 0) /\ call.limit > 0 /\ call.radius >= 0) => ret.val = None

C7_Witness ==
    /\ call.fn = "escape_time"
    /\ ret.st = "returned"
    /\ call.limit = Limit
    /\ call.radius = Radius
    /\ ret.val = Some(3)

(***************************************************************************)
(* C8.  pixel_to_point maps (column, row) to upper_left.re + column *      *)
(* (lower_right.re - upper_left.re) / width and upper_left.im - row *      *)
(* (upper_left.im - lower_right.im) / height, up to the rounding of its    *)
(* four operations; (0,0) maps exactly to upper_left, (width,height) to    *)
(* lower_right up to rounding, and the case of test_pixel_to_point exactly *)
(* to (-0.5, -0.75).                                                       *)
(***************************************************************************)
C8_PixelToPoint ==
    (call.fn = "pixel_to_point" /\ ret.st = "returned") =>
        LET p == ret.val
            ul == call.upper_left
            lr == call.lower_right
            width == call.bounds[1]
            height == call.bounds[2]
            col == call.pixel[1]
            rw == call.pixel[2]
            reSize == Abs(ul.re) + Abs(lr.re)
            imSize == Abs(ul.im) + Abs(lr.im)
        IN  /\ Close(p.re, ul.re * width + col * (lr.re - ul.re), width,
                     (width + col) * reSize)
            /\ Close(p.im, ul.im * height - rw * (ul.im - lr.im), height,
                     (height + rw) * imSize)
            /\ call.pixel = <<0, 0>> => p = ul
            /\ call.pixel = call.bounds =>
                   /\ Close(p.re, lr.re, 1, 2 * reSize)
                   /\ Close(p.im, lr.im, 1, 2 * imSize)
            /\ call = TestPixelToPoint => p = Complex(-(Unit \div 2), -((3 * Unit) \div 4))

C8_Witness ==
    /\ call = TestPixelToPoint
    /\ ret.st = "returned"
    /\ ret.val = Complex(-(Unit \div 2), -((3 * Unit) \div 4))

====
